---- MODULE Spec2Model ----
(***************************************************************************)
(* A model of main_uota.py: the InfinityGuard (shoot_infs), the            *)
(* distributed Sinkhorn-Knopp normalisation (distributed_sinkhorn), the    *)
(* feature queue / warm latch / epoch-gated loss of train(), and the       *)
(* epoch loop of main().                                                   *)
(*                                                                         *)
(* Tensor entries are IEEE-like values over the exact rationals: a pair    *)
(* <<n, d>> with d > 0 is the rational n/d in lowest terms, <<1, 0>> is    *)
(* +inf, <<-1, 0>> is -inf and <<0, 0>> is NaN.                            *)
(***************************************************************************)
EXTENDS Integers, Sequences, FiniteSets, TLC

VARIABLES
    \* ---- shoot_infs ----
    inp_tensor,        \* the tensor handed to shoot_infs (1-D: Seq of values, 2-D: Seq of rows)
    ndim,              \* its number of dimensions (1 or 2)
    guard_in,          \* the tensor as it was on entry
    guard_pc,          \* "call" before shoot_infs ran, "returned" after
    \* ---- distributed_sinkhorn ----
    world_size_s,      \* args.world_size of the reduce group
    Q,                 \* Q[w]: worker w's local matrix, Seq (rows = prototypes) of Seq (columns = samples)
    Q_in,              \* the matrices on entry
    nmb_iters,         \* the iteration count passed in
    sk_it,             \* the inner loop's counter `it`
    sk_pc,             \* "entry", "loop", "loopdone", "returned"
    sk_out             \* the returned (transposed) matrices

VARIABLES
    \* ---- main / train ----
    args,              \* the parsed arguments the loop reads (queue_length is rewritten at line 230)
    queue_length_arg,  \* --queue_length as it was passed
    loader_len,        \* len(train_loader)
    queue_file,        \* the content of queue<rank>.pth, or Absent
    pc,                \* "build", "epoch" (top of the epoch loop), "train" (inside train)
    epoch,             \* the epoch loop's variable (starts at to_restore["epoch"])
    it,                \* the number of iterations of train's loop done in this epoch
    queue,             \* None, or queue[i]: the rows of crop group i's buffer, row 1 first
    loaded,            \* whether queue came from queue_file
    use_the_queue,     \* train's local flag
    prepended,         \* prepended[i]: the queue rows prepended to group i's scores in the last step
    pushes,            \* pushes[i]: the number of batches written into group i's buffer in this run
    ce_terms,          \* the last step's per-sample terms -sum(q * log(p), dim=1)
    sample_weight,     \* the last step's per-sample weights
    loss               \* the last step's loss

VARIABLES
    \* ---- the workers' collective calls during one run of train's loop ----
    sy_args,           \* improve_numerical_stability and sinkhorn_iterations, the same on all workers
    sy_pos,            \* sy_pos[w]: where worker w is: "scores", "stab", "total", "loop", "done"
    sy_wait,           \* sy_wait[w]: the reduction worker w is blocked in: "MAX", "SUM", or "none"
    sy_step,           \* sy_step[w]: the worker's training step
    sy_group,          \* sy_group[w]: the crop group i of line 318
    sy_iter,           \* sy_iter[w]: `it` of distributed_sinkhorn's loop
    sy_local,          \* sy_local[w]: what only this worker sees: is its queue warm, did shoot_infs replace
    sy_calls           \* sy_calls[w]: the reductions worker w has called so far, in order

guardVars == <<inp_tensor, ndim, guard_in, guard_pc>>
syncVars == <<sy_args, sy_pos, sy_wait, sy_step, sy_group, sy_iter, sy_local, sy_calls>>
sinkVars == <<world_size_s, Q, Q_in, nmb_iters, sk_it, sk_pc, sk_out>>
trainVars == <<args, queue_length_arg, loader_len, queue_file, pc, epoch, it, queue, loaded,
               use_the_queue, prepended, pushes, ce_terms, sample_weight, loss>>
vars == <<guardVars, sinkVars, trainVars, syncVars>>

----------------------------------------------------------------------------
(* Values *)

Abs(x) == IF x < 0 THEN -x ELSE x
Sign(x) == IF x < 0 THEN -1 ELSE IF x > 0 THEN 1 ELSE 0

RECURSIVE GCD(_, _)
GCD(a, b) == IF b = 0 THEN a ELSE GCD(b, a % b)

\* the value n/d (d >= 0) in canonical form
Norm(n, d) ==
    IF d = 0 THEN <<Sign(n), 0>>
    ELSE LET g == GCD(Abs(n), d) IN <<n \div g, d \div g>>

Rat(n) == <<n, 1>>
PosInf == <<1, 0>>
NegInf == <<-1, 0>>
NaN == <<0, 0>>

IsNaN(x) == x[1] = 0 /\ x[2] = 0
IsInf(x) == x[1] # 0 /\ x[2] = 0          \* torch.isinf: +inf or -inf, not NaN
IsFinite(x) == x[2] # 0

\* IEEE addition
FAdd(x, y) ==
    IF IsNaN(x) \/ IsNaN(y) THEN NaN
    ELSE IF IsInf(x) /\ IsInf(y) THEN (IF x = y THEN x ELSE NaN)
    ELSE IF IsInf(x) THEN x
    ELSE IF IsInf(y) THEN y
    ELSE LET g == GCD(x[2], y[2])          \* over the least common denominator
         IN Norm(x[1] * (y[2] \div g) + y[1] * (x[2] \div g), x[2] * (y[2] \div g))

\* IEEE multiplication (0 * inf = NaN)
FMul(x, y) ==
    IF x[2] = 0 \/ y[2] = 0 THEN Norm(x[1] * y[1], 0)
    ELSE LET g1 == GCD(Abs(x[1]), y[2])    \* cancel across before multiplying
             g2 == GCD(Abs(y[1]), x[2])
         IN Norm((x[1] \div g1) * (y[1] \div g2), (x[2] \div g2) * (y[2] \div g1))

\* IEEE reciprocal (1/0 = +inf, 1/inf = 0)
FRecip(x) ==
    IF IsNaN(x) THEN NaN
    ELSE IF x[1] = 0 THEN PosInf
    ELSE IF x[2] = 0 THEN Rat(0)
    ELSE <<Sign(x[1]) * x[2], Abs(x[1])>>

\* IEEE division (x/0 = inf for x # 0, 0/0 = NaN)
FDiv(x, y) == FMul(x, FRecip(y))

\* x < y on values that are not NaN
FLess(x, y) ==
    IF IsInf(x) \/ IsInf(y)
    THEN (x = NegInf /\ y # NegInf) \/ (y = PosInf /\ x # PosInf)
    ELSE x[1] * y[2] < y[1] * x[2]

RECURSIVE SumSeq(_)
SumSeq(s) == IF s = <<>> THEN Rat(0) ELSE FAdd(s[1], SumSeq(Tail(s)))

\* torch.max over the entries s: NaN propagates, else the greatest entry
TorchMax(s) ==
    IF \E k \in DOMAIN s : IsNaN(s[k]) THEN NaN
    ELSE CHOOSE m \in {s[k] : k \in DOMAIN s} :
             \A k \in DOMAIN s : ~FLess(m, s[k])

\* the entries of a 2-D tensor, row after row
RECURSIVE Flatten(_)
Flatten(t) == IF t = <<>> THEN <<>> ELSE t[1] \o Flatten(Tail(t))

----------------------------------------------------------------------------
(* shoot_infs *)

\* first pass (lines 420-424): every infinite entry is set to 0
ZeroInfs1(t) == [k \in DOMAIN t |-> IF IsInf(t[k]) THEN Rat(0) ELSE t[k]]
ZeroInfs2(t) == [r \in DOMAIN t |-> ZeroInfs1(t[r])]

\* second pass (lines 426-430): the entries of the mask are set to m
FillInfs1(t, mask, m) == [k \in DOMAIN t |-> IF IsInf(mask[k]) THEN m ELSE t[k]]
FillInfs2(t, mask, m) == [r \in DOMAIN t |-> FillInfs1(t[r], mask[r], m)]

ShootInfsMutNoZero1(t) ==
    IF \E k \in DOMAIN t : IsInf(t[k])
    THEN FillInfs1(t, t, TorchMax(t))
    ELSE t

shoot_infs1(t) ==
    IF \E k \in DOMAIN t : IsInf(t[k])
    THEN LET z == ZeroInfs1(t) IN FillInfs1(z, t, TorchMax(z))
    ELSE t

shoot_infs2(t) ==
    IF \E r \in DOMAIN t : \E k \in DOMAIN t[r] : IsInf(t[r][k])
    THEN LET z == ZeroInfs2(t) IN FillInfs2(z, t, TorchMax(Flatten(z)))
    ELSE t

\* shoot_infs (lines 415-431): len(ind) is 1 for a 1-D tensor, 2 for a 2-D one
shoot_infs(t, nd) == IF nd = 1 THEN shoot_infs1(t) ELSE shoot_infs2(t)

----------------------------------------------------------------------------
(* distributed_sinkhorn *)

NRows(M) == Len(M)                      \* Q.shape[0]
NCols(M) == Len(M[1])                   \* Q.shape[1]

RowSums(M) == [k \in 1..NRows(M) |-> SumSeq(M[k])]                            \* torch.sum(Q, dim=1)
ColSums(M) == [n \in 1..NCols(M) |-> SumSeq([k \in 1..NRows(M) |-> M[k][n]])] \* torch.sum(Q, dim=0)
TotalSum(M) == SumSeq(RowSums(M))                                             \* torch.sum(Q)

\* dist.all_reduce (SUM) of the workers' values x[1..n]
RECURSIVE AllReduceSum(_, _)
AllReduceSum(x, n) == IF n = 0 THEN Rat(0) ELSE FAdd(AllReduceSum(x, n - 1), x[n])

\* line 403: r = ones(Q.shape[0]) / Q.shape[0]
RowTarget(M) == FDiv(Rat(1), Rat(NRows(M)))

ColTargetMutLocal(W, M) == FDiv(Rat(1), Rat(NCols(M)))

\* line 404: c = ones(Q.shape[1]) / (args.world_size * Q.shape[1])
ColTarget(W, M) == FDiv(Rat(1), Rat(W * NCols(M)))

\* lines 399-402 on every worker: Q = shoot_infs(Q); Q /= all_reduce(sum(Q))
SinkNormalize(W, Qs) ==
    LET G == [w \in 1..W |-> shoot_infs2(Qs[w])]
        sum_Q == AllReduceSum([w \in 1..W |-> TotalSum(G[w])], W)
    IN [w \in 1..W |-> [k \in 1..NRows(G[w]) |-> [n \in 1..NCols(G[w]) |->
            FDiv(G[w][k][n], sum_Q)]]]

\* lines 406-409: u = shoot_infs(r / all_reduce(sum(Q, dim=1)))
RowScale(W, Qs) ==
    LET K == NRows(Qs[1])
        u0 == [k \in 1..K |-> AllReduceSum([w \in 1..W |-> RowSums(Qs[w])[k]], W)]
    IN shoot_infs1([k \in 1..K |-> FDiv(RowTarget(Qs[1]), u0[k])])

\* line 411: Q *= (c / torch.sum(Q, dim=0)).unsqueeze(0)
ColScale(W, M) ==
    LET cs == ColSums(M)
    IN [k \in 1..NRows(M) |-> [n \in 1..NCols(M) |->
            FMul(M[k][n], FDiv(ColTarget(W, M), cs[n]))]]

\* one pass of the loop body, lines 406-411, on every worker
SinkIteration(W, Qs) ==
    LET u == RowScale(W, Qs)
    IN [w \in 1..W |->
          ColScale(W, [k \in 1..NRows(Qs[w]) |-> [n \in 1..NCols(Qs[w]) |->
                          FMul(Qs[w][k][n], u[k])]])]

\* line 412: (Q / torch.sum(Q, dim=0, keepdim=True)).t()
SinkResult(M) ==
    LET cs == ColSums(M)
    IN [n \in 1..NCols(M) |-> [k \in 1..NRows(M) |-> FDiv(M[k][n], cs[n])]]

----------------------------------------------------------------------------
(* Specification of shoot_infs *)

MaxLen == 3
MaxRows == 2
MaxCols == 2

GuardValues1 == {Rat(-1), Rat(0), Rat(2), PosInf, NegInf, NaN}
GuardValues2 == {Rat(-1), Rat(2), PosInf}

Tensors1 == UNION {[1..n -> GuardValues1] : n \in 0..MaxLen}
Tensors2 == UNION {[1..r -> [1..c -> GuardValues2]] : r \in 1..MaxRows, c \in 1..MaxCols}

SinkIdle ==
    /\ world_size_s = 0
    /\ Q = <<>>
    /\ Q_in = <<>>
    /\ nmb_iters = 0
    /\ sk_it = 0
    /\ sk_pc = "idle"
    /\ sk_out = <<>>

GuardIdle ==
    /\ inp_tensor = <<>>
    /\ ndim = 1
    /\ guard_in = <<>>
    /\ guard_pc = "idle"

SyncIdle ==
    /\ sy_args = <<>>
    /\ sy_pos = <<>>
    /\ sy_wait = <<>>
    /\ sy_step = <<>>
    /\ sy_group = <<>>
    /\ sy_iter = <<>>
    /\ sy_local = <<>>
    /\ sy_calls = <<>>

TrainIdle ==
    /\ args = <<>>
    /\ queue_length_arg = 0
    /\ loader_len = 0
    /\ queue_file = <<>>
    /\ pc = "idle"
    /\ epoch = 0
    /\ it = 0
    /\ queue = <<>>
    /\ loaded = FALSE
    /\ use_the_queue = FALSE
    /\ prepended = <<>>
    /\ pushes = <<>>
    /\ ce_terms = <<>>
    /\ sample_weight = <<>>
    /\ loss = Rat(0)

InitGuard ==
    /\ ndim \in {1, 2}
    /\ inp_tensor \in (IF ndim = 1 THEN Tensors1 ELSE Tensors2)
    /\ guard_in = inp_tensor
    /\ guard_pc = "call"
    /\ SinkIdle
    /\ TrainIdle
    /\ SyncIdle

\* one call of shoot_infs on inp_tensor, which it changes in place and returns
ShootInfs ==
    /\ guard_pc = "call"
    /\ inp_tensor' = shoot_infs(inp_tensor, ndim)
    /\ guard_pc' = "returned"
    /\ UNCHANGED <<ndim, guard_in, sinkVars, trainVars, syncVars>>

NextGuard == ShootInfs

SpecGuard == InitGuard /\ [][NextGuard]_vars

\* the entries of the tensor on entry and on return, in index order
GuardEntriesIn == IF ndim = 1 THEN guard_in ELSE Flatten(guard_in)
GuardEntriesOut == IF ndim = 1 THEN inp_tensor ELSE Flatten(inp_tensor)

FiniteIn == {GuardEntriesIn[k] : k \in {j \in DOMAIN GuardEntriesIn : IsFinite(GuardEntriesIn[j])}}

\* the greatest element of a non-empty set of finite values
MaxOf(S) == CHOOSE m \in S : \A x \in S : ~FLess(m, x)

\* C10 as stated: every finite entry is unchanged and every non-finite entry
\* (an infinity or a NaN) becomes the greatest finite value present in the
\* tensor, 0 when no entry is finite.
C10_AsStated ==
    guard_pc = "returned" =>
        \A k \in DOMAIN GuardEntriesIn :
            IF IsFinite(GuardEntriesIn[k])
            THEN GuardEntriesOut[k] = GuardEntriesIn[k]
            ELSE GuardEntriesOut[k] = (IF FiniteIn = {} THEN Rat(0) ELSE MaxOf(FiniteIn))

\* C10 amended: on a tensor without NaN every finite entry is unchanged and
\* every infinite entry (+inf or -inf) becomes the greatest of 0 and the finite
\* values present; on any tensor an entry that is not infinite is unchanged (so
\* a tensor without infinities is returned as it was, and a NaN is never
\* replaced) and the result holds no infinity.
C10_Guard ==
    guard_pc = "returned" =>
        /\ \A k \in DOMAIN GuardEntriesIn :
              /\ ~IsInf(GuardEntriesIn[k]) => GuardEntriesOut[k] = GuardEntriesIn[k]
              /\ ~IsInf(GuardEntriesOut[k])
        /\ (\A k \in DOMAIN GuardEntriesIn : ~IsNaN(GuardEntriesIn[k])) =>
              \A k \in DOMAIN GuardEntriesIn :
                  IsInf(GuardEntriesIn[k]) =>
                      GuardEntriesOut[k] = MaxOf(FiniteIn \cup {Rat(0)})

\* a returned call whose tensor held an infinity beside a positive finite entry
C10_Witness ==
    /\ guard_pc = "returned"
    /\ \E k \in DOMAIN GuardEntriesIn : IsInf(GuardEntriesIn[k])
    /\ \E k \in DOMAIN GuardEntriesIn :
          IsFinite(GuardEntriesIn[k]) /\ FLess(Rat(0), GuardEntriesIn[k])
    /\ \A k \in DOMAIN GuardEntriesIn : ~IsNaN(GuardEntriesIn[k])

----------------------------------------------------------------------------
(* Specification of distributed_sinkhorn *)

NmbPrototypes == 2      \* rows of Q
MaxSamples == 2         \* columns of one worker's Q
MaxWorld == 2           \* workers in the reduce group
MaxIters == 1           \* nmb_iters

\* the columns a worker's matrix is built from (exp of a score is >= 0, or
\* +inf on overflow)
Columns ==
    { [k \in 1..NmbPrototypes |-> Rat(0)],
      [k \in 1..NmbPrototypes |-> Rat(1)],
      [k \in 1..NmbPrototypes |-> IF k = 1 THEN Rat(2) ELSE Rat(1)],
      [k \in 1..NmbPrototypes |-> IF k = 1 THEN Rat(0) ELSE Rat(1)],
      [k \in 1..NmbPrototypes |-> IF k = 1 THEN PosInf ELSE Rat(1)] }

\* the matrix whose n-th column is cols[n]
FromColumns(cols) == [k \in 1..NmbPrototypes |-> [n \in 1..Len(cols) |-> cols[n][k]]]

\* worker 1's matrices, and the constant matrices of the other workers
Matrices == UNION {{FromColumns(cols) : cols \in [1..n -> Columns]} : n \in 1..MaxSamples}
PeerMatrices ==
    UNION {{[k \in 1..NmbPrototypes |-> [j \in 1..n |-> Rat(v)]] : v \in 1..2} : n \in 1..MaxSamples}

InitSink ==
    /\ world_size_s \in 1..MaxWorld
    /\ \E m \in Matrices : \E p \in PeerMatrices :
          Q = [w \in 1..world_size_s |-> IF w = 1 THEN m ELSE p]
    /\ Q_in = Q
    /\ nmb_iters \in 0..MaxIters
    /\ sk_it = 0
    /\ sk_pc = "entry"
    /\ sk_out = <<>>
    /\ GuardIdle
    /\ TrainIdle
    /\ SyncIdle

\* lines 399-404
SinkEntry ==
    /\ sk_pc = "entry"
    /\ Q' = SinkNormalize(world_size_s, Q)
    /\ sk_it' = 0
    /\ sk_pc' = "loop"
    /\ UNCHANGED <<world_size_s, Q_in, nmb_iters, sk_out, guardVars, trainVars, syncVars>>

\* one iteration of `for it in range(nmb_iters)`, lines 405-411
SinkIter ==
    /\ sk_pc = "loop"
    /\ sk_it < nmb_iters
    /\ Q' = SinkIteration(world_size_s, Q)
    /\ sk_it' = sk_it + 1
    /\ UNCHANGED <<world_size_s, Q_in, nmb_iters, sk_pc, sk_out, guardVars, trainVars, syncVars>>

\* line 412, once the loop is over
SinkReturn ==
    /\ sk_pc = "loop"
    /\ sk_it = nmb_iters
    /\ sk_out' = [w \in 1..world_size_s |-> SinkResult(Q[w])]
    /\ sk_pc' = "returned"
    /\ UNCHANGED <<world_size_s, Q, Q_in, nmb_iters, sk_it, guardVars, trainVars, syncVars>>

NextSink == SinkEntry \/ SinkIter \/ SinkReturn

SpecSink == InitSink /\ [][NextSink]_vars

\* whether every entry of every worker's input was finite and > 0 / >= 0
PositiveInput ==
    \A w \in 1..world_size_s : \A k \in 1..NRows(Q_in[w]) : \A n \in 1..NCols(Q_in[w]) :
        IsFinite(Q_in[w][k][n]) /\ FLess(Rat(0), Q_in[w][k][n])
NonNegativeInput ==
    \A w \in 1..world_size_s : \A k \in 1..NRows(Q_in[w]) : \A n \in 1..NCols(Q_in[w]) :
        IsFinite(Q_in[w][k][n]) /\ ~FLess(Q_in[w][k][n], Rat(0))

\* after the last inner iteration, before line 412
LoopDone == sk_pc = "loop" /\ sk_it = nmb_iters /\ nmb_iters >= 1

GlobalSum == AllReduceSum([w \in 1..world_size_s |-> TotalSum(Q[w])], world_size_s)

\* C8 as stated: for strictly positive finite inputs, after the last inner
\* iteration every sample's column of Q sums to one mass that is the same on
\* all workers, and Q summed over all samples of all workers is 1.
C8_AsStated ==
    (LoopDone /\ PositiveInput) =>
        /\ \A w1, w2 \in 1..world_size_s :
              \A n1 \in 1..NCols(Q[w1]) : \A n2 \in 1..NCols(Q[w2]) :
                  ColSums(Q[w1])[n1] = ColSums(Q[w2])[n2]
        /\ GlobalSum = Rat(1)

\* C8 amended: for strictly positive finite inputs, after the last inner
\* iteration every sample's column on worker w sums to 1/(worldSize * n_w),
\* n_w being the number of columns of worker w's own matrix (the same mass on
\* two workers when they hold equally many columns), and Q summed over all
\* samples of all workers is 1.
C8_Mass ==
    (LoopDone /\ PositiveInput) =>
        /\ \A w \in 1..world_size_s : \A n \in 1..NCols(Q[w]) :
              ColSums(Q[w])[n] = Norm(1, world_size_s * NCols(Q[w]))
        /\ GlobalSum = Rat(1)

\* two workers with different column counts, past the last iteration
C8_Witness ==
    /\ LoopDone
    /\ PositiveInput
    /\ world_size_s >= 2
    /\ NCols(Q[1]) # NCols(Q[2])
    /\ \E k1, k2 \in 1..NRows(Q_in[1]) : Q_in[1][k1][1] # Q_in[1][k2][1]

\* some entry of some worker's input was > 0, as after exp(q - M) with M the
\* global maximum
SomeMass ==
    \E w \in 1..world_size_s : \E k \in 1..NRows(Q_in[w]) : \E n \in 1..NCols(Q_in[w]) :
        FLess(Rat(0), Q_in[w][k][n])

\* C9 as stated: for every non-negative finite input, an all-zero row or
\* column included, the engine's result holds no infinite and no NaN entry.
\* (Stated of the inputs with some positive entry and at least one inner
\* iteration, which is enough to refute it.)
C9_AsStated ==
    (sk_pc = "returned" /\ NonNegativeInput /\ SomeMass /\ nmb_iters >= 1) =>
        \A w \in 1..world_size_s : \A n \in DOMAIN sk_out[w] : \A k \in DOMAIN sk_out[w][n] :
            IsFinite(sk_out[w][n][k])

----------------------------------------------------------------------------
(* main and train: the queue, the warm latch and the epoch-gated loss *)

NumGroups == 2          \* len(args.crops_for_assign)
NmbCrops == 2           \* np.sum(args.nmb_crops)
Groups == 1..NumGroups
None == <<>>            \* queue = None: no buffer (a buffer has NumGroups entries)
Absent == <<>>          \* no queue file
crop_id(i) == i - 1     \* args.crops_for_assign[i] of the i-th group, crops_for_assign = [0, 1]

\* A row of a queue buffer or of the embedding tensor.  zero says whether the
\* row is the all-zero vector, which is all the code looks at; push and row
\* name the batch (counted per group from 1, 0 for a row no push wrote) and
\* the position in it that the row came from.
ZeroRow == [push |-> 0, row |-> 0, zero |-> TRUE]          \* a row of torch.zeros
IsZeroRow(r) == r.zero                                     \* torch.all(row == 0)

\* line 230: args.queue_length -= args.queue_length % (args.batch_size * args.world_size)
TruncateMutBatchOnly(L, B, W) == L - (L % B)
Truncate(L, B, W) == L - (L % (B * W))

\* lines 245-249: torch.zeros(len(crops_for_assign), queue_length // world_size, feat_dim)
NewQueue(L, W) == [i \in Groups |-> [k \in 1..(L \div W) |-> ZeroRow]]

\* line 244
StartsQueue(a, ep, q) == a.queue_length > 0 /\ ep >= a.epoch_queue_starts /\ q = None

\* line 324: use_the_queue or not torch.all(queue[i, -1, :] == 0)
TimeToUseMutFirstRow(use, buf) == use \/ ~IsZeroRow(buf[1])
TimeToUse(use, buf) == use \/ ~IsZeroRow(buf[Len(buf)])

\* line 325: use_the_queue = True, inside the if of line 324
LatchMutNever(use, cond) == use
Latch(use, cond) == use \/ cond

\* lines 331-332: queue[i, bs:] = queue[i, :-bs].clone(); queue[i, :bs] = embedding[...]
QueuePushMutNoShift(buf, batch) ==
    [k \in 1..Len(buf) |-> IF k <= Len(batch) THEN batch[k] ELSE buf[k]]
QueuePush(buf, batch) ==
    [k \in 1..Len(buf) |-> IF k <= Len(batch) THEN batch[k] ELSE buf[k - Len(batch)]]

\* lines 323-332 for group i: st carries use_the_queue, queue and what was prepended
GroupStep(st, i, batch) ==
    IF st.queue = None THEN st
    ELSE LET cond == TimeToUse(st.use, st.queue[i])
         IN [use |-> IF cond THEN Latch(st.use, cond) ELSE st.use,
             queue |-> [st.queue EXCEPT ![i] = QueuePush(st.queue[i], batch)],
             prepended |-> [st.prepended EXCEPT ![i] = IF cond THEN st.queue[i] ELSE <<>>]]

\* line 318: for i, crop_id in enumerate(args.crops_for_assign)
RECURSIVE GroupLoop(_, _, _)
GroupLoop(st, i, emb) ==
    IF i > NumGroups THEN st ELSE GroupLoop(GroupStep(st, i, emb[i]), i + 1, emb)

\* line 346
UotaOnMutOneEarly(ep, start) == ep + 1 >= start
UotaOn(ep, start) == ep + 1 > start

Mean(s) == FDiv(SumSeq(s), Rat(Len(s)))

\* lines 345-351 for one other crop v (1-based): the mean over the batch of the
\* per-sample terms, weighted by sample_weight of crop v once UOTA is on
CropTerm(ce, w, v, on) ==
    IF on THEN Mean([k \in DOMAIN ce[v] |-> FMul(ce[v][k], w[v][k])])
    ELSE Mean(ce[v])

\* lines 343-352 for group i: the sum over the crops other than crop_id, over their count
RECURSIVE SubLoss(_, _, _, _, _)
SubLoss(ce, w, i, v, on) ==
    IF v > NmbCrops THEN Rat(0)
    ELSE FAdd(IF v - 1 = crop_id(i) THEN Rat(0) ELSE CropTerm(ce, w, v, on),
              SubLoss(ce, w, i, v + 1, on))

\* lines 317-353
RECURSIVE LossSum(_, _, _, _)
LossSum(ce, w, i, on) ==
    IF i > NumGroups THEN Rat(0)
    ELSE FAdd(FDiv(SubLoss(ce, w, i, 1, on), Rat(NmbCrops - 1)), LossSum(ce, w, i + 1, on))
TrainLoss(ce, w, ep, start) == FDiv(LossSum(ce, w, 1, UotaOn(ep, start)), Rat(NumGroups))

\* the batches a step can see: per group, which rows of the embedding are all-zero
ZeroPatterns(bs) ==
    { [k \in 1..bs |-> FALSE], [k \in 1..bs |-> TRUE] }
CeChoices(bs) == { [v \in 1..NmbCrops |-> [k \in 1..bs |-> Rat(v + k)]] }
WeightChoices(bs) ==
    { [v \in 1..NmbCrops |-> [k \in 1..bs |-> Rat(1)]],
      [v \in 1..NmbCrops |-> [k \in 1..bs |-> Rat(v + k)]] }

\* the buffers a queue file of an earlier run can hold
PersistedQueues(bs) ==
    { [i \in Groups |-> [k \in 1..bs |-> [push |-> 0, row |-> 0, zero |-> z]]] :
        z \in BOOLEAN }

InitTrain(Ls, Bs, Ws, QStarts, UStarts, Epochs, Starts, Lens, withFile) ==
    /\ queue_length_arg \in Ls
    /\ \E B \in Bs, W \in Ws, qs \in QStarts, us \in UStarts, E \in Epochs :
          /\ args = [queue_length |-> queue_length_arg, batch_size |-> B, world_size |-> W,
                     epoch_queue_starts |-> qs, epoch_uota_starts |-> us, epochs |-> E]
          /\ queue_file \in {Absent} \cup (IF withFile THEN PersistedQueues(B) ELSE {})
    /\ loader_len \in Lens
    /\ epoch \in Starts
    /\ pc = "build"
    /\ it = 0
    /\ queue = None
    /\ loaded = FALSE
    /\ use_the_queue = FALSE
    /\ prepended = [i \in Groups |-> <<>>]
    /\ pushes = [i \in Groups |-> 0]
    /\ ce_terms = <<>>
    /\ sample_weight = <<>>
    /\ loss = Rat(0)
    /\ GuardIdle
    /\ SinkIdle
    /\ SyncIdle

\* main, lines 224-230: load the queue file if there is one, truncate queue_length
BuildQueue ==
    /\ pc = "build"
    /\ queue' = IF queue_file # Absent THEN queue_file ELSE None
    /\ loaded' = (queue_file # Absent)
    /\ args' = [args EXCEPT !.queue_length =
                   Truncate(args.queue_length, args.batch_size, args.world_size)]
    /\ pc' = "epoch"
    /\ UNCHANGED <<queue_length_arg, loader_len, queue_file, epoch, it, use_the_queue,
                   prepended, pushes, ce_terms, sample_weight, loss, guardVars, sinkVars, syncVars>>

\* main, lines 234-260, and train, lines 286-295: the top of an epoch
EpochStart ==
    /\ pc = "epoch"
    /\ epoch < args.epochs
    /\ queue' = IF StartsQueue(args, epoch, queue)
                THEN NewQueue(args.queue_length, args.world_size)
                ELSE queue
    /\ use_the_queue' = FALSE
    /\ it' = 0
    /\ pc' = "train"
    /\ UNCHANGED <<args, queue_length_arg, loader_len, queue_file, epoch, loaded,
                   prepended, pushes, ce_terms, sample_weight, loss, guardVars, sinkVars, syncVars>>

\* train, lines 296-373: one iteration of the loop over train_loader
TrainStep ==
    /\ pc = "train"
    /\ it < loader_len
    /\ \E zp \in [Groups -> ZeroPatterns(args.batch_size)],
          ce \in CeChoices(args.batch_size), w \in WeightChoices(args.batch_size) :
          LET emb == [i \in Groups |-> [k \in 1..args.batch_size |->
                          [push |-> pushes[i] + 1, row |-> k, zero |-> zp[i][k]]]]
              st == GroupLoop([use |-> use_the_queue, queue |-> queue,
                               prepended |-> [i \in Groups |-> <<>>]], 1, emb)
          IN /\ use_the_queue' = st.use
             /\ queue' = st.queue
             /\ prepended' = st.prepended
             /\ pushes' = IF queue = None THEN pushes ELSE [i \in Groups |-> pushes[i] + 1]
             /\ ce_terms' = ce
             /\ sample_weight' = w
             /\ loss' = TrainLoss(ce, w, epoch, args.epoch_uota_starts)
    /\ it' = it + 1
    /\ UNCHANGED <<args, queue_length_arg, loader_len, queue_file, pc, epoch, loaded,
                   guardVars, sinkVars, syncVars>>

\* train, line 394, and main, lines 261-282: the epoch is over, the queue is saved
EpochEnd ==
    /\ pc = "train"
    /\ it = loader_len
    /\ queue_file' = IF queue # None THEN queue ELSE queue_file
    /\ epoch' = epoch + 1
    /\ pc' = "epoch"
    /\ UNCHANGED <<args, queue_length_arg, loader_len, it, queue, loaded, use_the_queue,
                   prepended, pushes, ce_terms, sample_weight, loss, guardVars, sinkVars, syncVars>>

Next == BuildQueue \/ EpochStart \/ TrainStep \/ EpochEnd

MaxQueueLength == 2
MaxBatch == 2
MaxEpochs == 2
MaxLoader == 2

Init ==
    InitTrain(0..MaxQueueLength, 1..MaxBatch, {1}, {0, 1}, {1}, {MaxEpochs}, {0, 1},
              {MaxLoader}, TRUE)

Spec == Init /\ [][Next]_vars

\* the number of batches group i's buffer holds: capacity / batchSize
Slots(i) == Len(queue[i]) \div args.batch_size

\* a training step of this epoch has run
Stepped == pc = "train" /\ it > 0

\* C1 as stated: once a group's stored embeddings were prepended in some
\* training step, they are prepended in every later training step of the run,
\* later epochs included.  (Stated of the runs that made their buffer
\* themselves, which is enough to refute it.)
C1_AsStated ==
    [][\A i \in Groups : (~loaded /\ prepended[i] # <<>>) => prepended'[i] # <<>>]_vars

\* C1 amended: within one epoch (one call of train), once a group's stored
\* embeddings were prepended in some step they are prepended in every later
\* step of that epoch, whatever the final slot of its buffer holds.
C1_LatchWithinEpoch ==
    [][\A i \in Groups :
          (Stepped /\ it' = it + 1 /\ prepended[i] # <<>>) => prepended'[i] # <<>>]_vars

\* the first group was read in the second or a later step of an epoch although
\* the final slot of its buffer was all-zero
C1_Witness ==
    /\ Stepped
    /\ it >= 2
    /\ prepended[1] # <<>>
    /\ IsZeroRow(prepended[1][Len(prepended[1])])

\* C2: in a run that started without a queue file, whenever a group's stored
\* embeddings are prepended, every row of its buffer was written by a push (none
\* is still the row torch.zeros made) and the group had received at least
\* capacity / batchSize pushes before.
C2_NoColdRead ==
    ~loaded =>
        \A i \in Groups :
            prepended[i] # <<>> =>
                /\ \A k \in DOMAIN prepended[i] : prepended[i][k].push >= 1
                /\ pushes[i] - 1 >= Slots(i)

\* a resumed run without a queue file reads the second group's buffer
C2_Witness ==
    /\ ~loaded
    /\ Stepped
    /\ epoch >= 1
    /\ prepended[NumGroups] # <<>>
    /\ Slots(NumGroups) >= 2

\* C3: after n pushes into a buffer that started all-zero, rows
\* [j*batchSize, (j+1)*batchSize) hold batch n-j, row for row, for every
\* j < min(n, capacity/batchSize); every other row is still the zero row.
C3_Fifo ==
    (~loaded /\ queue # None) =>
        \A i \in Groups : \A k \in 1..Len(queue[i]) :
            LET j == (k - 1) \div args.batch_size
            IN IF j < pushes[i]
               THEN /\ queue[i][k].push = pushes[i] - j
                    /\ queue[i][k].row = k - j * args.batch_size
               ELSE queue[i][k] = ZeroRow

\* a buffer of two or more slots that has dropped its oldest batch
C3_Witness ==
    /\ ~loaded
    /\ queue # None
    /\ Slots(1) >= 2
    /\ pushes[1] > Slots(1)

\* C7 as stated: no queue buffer is read or pushed in an epoch earlier than
\* epoch_queue_starts, nor in any epoch when the truncated queue_length is 0.
C7_AsStated ==
    (Stepped /\ queue # None) =>
        (epoch >= args.epoch_queue_starts /\ args.queue_length > 0)

----------------------------------------------------------------------------
(* the loss of runs without a queue, over the UOTA start epochs *)

MaxUotaStart == 2
MaxLossBatch == 2
LossEpochs == 3

InitLoss ==
    InitTrain({0}, 1..MaxLossBatch, {1}, {0}, 0..MaxUotaStart, {LossEpochs}, 0..LossEpochs,
              1..2, FALSE)

SpecLoss == InitLoss /\ [][Next]_vars

\* the two forms of the loss on the last step's inputs: the mean over the
\* groups of the mean over each group's other crops of the batch mean of the
\* per-sample terms, times the sample's weight in the weighted form
OtherCrops(i) == {v \in 1..NmbCrops : v - 1 # crop_id(i)}
WeightedForm ==
    Mean([i \in Groups |-> Mean([n \in 1..(NmbCrops - 1) |->
        LET v == CHOOSE x \in OtherCrops(i) : Cardinality({y \in OtherCrops(i) : y < x}) = n - 1
        IN Mean([k \in DOMAIN ce_terms[v] |-> FMul(ce_terms[v][k], sample_weight[v][k])])])])
UnweightedForm ==
    Mean([i \in Groups |-> Mean([n \in 1..(NmbCrops - 1) |->
        LET v == CHOOSE x \in OtherCrops(i) : Cardinality({y \in OtherCrops(i) : y < x}) = n - 1
        IN Mean(ce_terms[v])])])

\* C5: the loss of a step of epoch e is the weighted form if and only if
\* e + 1 > epoch_uota_starts, and the unweighted form, in which the sample
\* weights do not occur, otherwise.
C5_LossGate ==
    Stepped =>
        loss = IF epoch + 1 > args.epoch_uota_starts THEN WeightedForm ELSE UnweightedForm

\* steps on both sides of the boundary with weights that change the loss: the
\* last epoch with the unweighted loss, and the first with the weighted one
C5_Witness ==
    /\ Stepped
    /\ WeightedForm # UnweightedForm
    /\ epoch + 1 = args.epoch_uota_starts + 1
    /\ loss = WeightedForm

----------------------------------------------------------------------------
(* the queue length over wider configurations *)

MaxConfiguredLength == 10
MaxBatchCfg == 4
MaxWorldCfg == 2
CfgEpochs == 1
CfgLoader == 1

InitCfg ==
    InitTrain(0..MaxConfiguredLength, 1..MaxBatchCfg, 1..MaxWorldCfg, {0}, {1}, {CfgEpochs},
              {0}, {CfgLoader}, TRUE)

SpecCfg == InitCfg /\ [][Next]_vars

\* C6: after line 230 queue_length is the largest multiple of
\* batch_size * world_size that does not exceed the configured length (10 with
\* batch 4 and world 1 gives 8); a buffer the epoch loop creates has
\* queue_length / world_size rows, a multiple of batch_size; and with a
\* configured length below batch_size * world_size no buffer is created.
C6_Truncation ==
    pc # "build" =>
        LET BW == args.batch_size * args.world_size
        IN /\ args.queue_length % BW = 0
           /\ args.queue_length <= queue_length_arg
           /\ queue_length_arg - args.queue_length < BW
           /\ (queue_length_arg = 10 /\ args.batch_size = 4 /\ args.world_size = 1)
                 => args.queue_length = 8
           /\ (~loaded /\ queue # None) =>
                 \A i \in Groups :
                     /\ Len(queue[i]) * args.world_size = args.queue_length
                     /\ Len(queue[i]) % args.batch_size = 0
                     /\ Len(queue[i]) > 0
           /\ (~loaded /\ queue_length_arg < BW) => queue = None

\* the configured 10 with batch 4 on one worker, its buffer of 8 rows created
C6_Witness ==
    /\ queue_length_arg = 10
    /\ args.batch_size = 4
    /\ args.world_size = 1
    /\ ~loaded
    /\ queue # None
    /\ Len(queue[1]) = 8

----------------------------------------------------------------------------
(* The collective calls of train and distributed_sinkhorn, worker by worker *)

SyncWorkers == 2        \* P, the workers of the reduce group
SyncSteps == 1          \* training steps
SyncMaxIters == 2       \* args.sinkhorn_iterations
Workers == 1..SyncWorkers

LocalData == [warm : BOOLEAN, infs : BOOLEAN]

\* line 335: if args.improve_numerical_stability
NeedsMax(a, loc) == a.improve_numerical_stability

\* line 405: for it in range(nmb_iters)
ContinuesMutAdaptive(a, i, loc) == i < a.sinkhorn_iterations /\ (i = 0 \/ loc.infs)
Continues(a, i, loc) == i < a.sinkhorn_iterations

InitSync ==
    /\ sy_args \in [improve_numerical_stability : BOOLEAN, sinkhorn_iterations : 0..SyncMaxIters]
    /\ sy_pos = [w \in Workers |-> "scores"]
    /\ sy_wait = [w \in Workers |-> "none"]
    /\ sy_step = [w \in Workers |-> 1]
    /\ sy_group = [w \in Workers |-> 1]
    /\ sy_iter = [w \in Workers |-> 0]
    /\ sy_local = [w \in Workers |-> [warm |-> FALSE, infs |-> FALSE]]
    /\ sy_calls = [w \in Workers |-> <<>>]
    /\ GuardIdle
    /\ SinkIdle
    /\ TrainIdle

Running(w) == sy_wait[w] = "none"

\* lines 319-334: the worker's own scores, with or without its queue's rows
Scores(w) ==
    /\ sy_pos[w] = "scores" /\ Running(w)
    /\ \E loc \in LocalData : sy_local' = [sy_local EXCEPT ![w] = loc]
    /\ sy_pos' = [sy_pos EXCEPT ![w] = "stab"]
    /\ UNCHANGED <<sy_args, sy_wait, sy_step, sy_group, sy_iter, sy_calls,
                   guardVars, sinkVars, trainVars>>

\* lines 335-338: the max-reduce of numerical-stability mode
Stability(w) ==
    /\ sy_pos[w] = "stab" /\ Running(w)
    /\ IF NeedsMax(sy_args, sy_local[w])
       THEN /\ sy_wait' = [sy_wait EXCEPT ![w] = "MAX"]
            /\ sy_calls' = [sy_calls EXCEPT ![w] = Append(@, "MAX")]
       ELSE UNCHANGED <<sy_wait, sy_calls>>
    /\ sy_pos' = [sy_pos EXCEPT ![w] = "total"]
    /\ UNCHANGED <<sy_args, sy_step, sy_group, sy_iter, sy_local,
                   guardVars, sinkVars, trainVars>>

\* lines 339-340 and 399-401: exp, shoot_infs, the sum-reduce of the total mass
TotalMass(w) ==
    /\ sy_pos[w] = "total" /\ Running(w)
    /\ sy_wait' = [sy_wait EXCEPT ![w] = "SUM"]
    /\ sy_calls' = [sy_calls EXCEPT ![w] = Append(@, "SUM")]
    /\ sy_iter' = [sy_iter EXCEPT ![w] = 0]
    /\ sy_pos' = [sy_pos EXCEPT ![w] = "loop"]
    /\ UNCHANGED <<sy_args, sy_step, sy_group, sy_local, guardVars, sinkVars, trainVars>>

\* lines 405-407: one more iteration and its sum-reduce of the row sums
LoopIteration(w) ==
    /\ sy_pos[w] = "loop" /\ Running(w)
    /\ Continues(sy_args, sy_iter[w], sy_local[w])
    /\ sy_wait' = [sy_wait EXCEPT ![w] = "SUM"]
    /\ sy_calls' = [sy_calls EXCEPT ![w] = Append(@, "SUM")]
    /\ sy_iter' = [sy_iter EXCEPT ![w] = @ + 1]
    /\ UNCHANGED <<sy_args, sy_pos, sy_step, sy_group, sy_local,
                   guardVars, sinkVars, trainVars>>

\* line 412 and back to line 318 or 296: the loop is over, on to the next
\* group, the next step, or the end of train
LoopExit(w) ==
    /\ sy_pos[w] = "loop" /\ Running(w)
    /\ ~Continues(sy_args, sy_iter[w], sy_local[w])
    /\ IF sy_group[w] < NumGroups
       THEN /\ sy_group' = [sy_group EXCEPT ![w] = @ + 1]
            /\ sy_pos' = [sy_pos EXCEPT ![w] = "scores"]
            /\ UNCHANGED sy_step
       ELSE IF sy_step[w] < SyncSteps
       THEN /\ sy_group' = [sy_group EXCEPT ![w] = 1]
            /\ sy_step' = [sy_step EXCEPT ![w] = @ + 1]
            /\ sy_pos' = [sy_pos EXCEPT ![w] = "scores"]
       ELSE /\ sy_pos' = [sy_pos EXCEPT ![w] = "done"]
            /\ UNCHANGED <<sy_group, sy_step>>
    /\ UNCHANGED <<sy_args, sy_wait, sy_iter, sy_local, sy_calls,
                   guardVars, sinkVars, trainVars>>

\* dist.all_reduce returns on every worker once all of them are in the same
\* reduction
Reduce ==
    /\ \A w \in Workers : sy_wait[w] # "none"
    /\ \A w \in Workers : sy_wait[w] = sy_wait[1]
    /\ sy_wait' = [w \in Workers |-> "none"]
    /\ UNCHANGED <<sy_args, sy_pos, sy_step, sy_group, sy_iter, sy_local, sy_calls,
                   guardVars, sinkVars, trainVars>>

NextSync ==
    \/ \E w \in Workers : Scores(w)
    \/ \E w \in Workers : Stability(w)
    \/ \E w \in Workers : TotalMass(w)
    \/ \E w \in Workers : LoopIteration(w)
    \/ \E w \in Workers : LoopExit(w)
    \/ Reduce

SpecSync == InitSync /\ [][NextSync]_vars

\* the reductions of one crop group: one MAX iff stability mode is on, one SUM
\* of the total mass, one SUM per inner iteration
RECURSIVE Sums(_)
Sums(n) == IF n = 0 THEN <<>> ELSE <<"SUM">> \o Sums(n - 1)
GroupCalls ==
    (IF sy_args.improve_numerical_stability THEN <<"MAX">> ELSE <<>>)
        \o <<"SUM">> \o Sums(sy_args.sinkhorn_iterations)

RECURSIVE Repeat(_, _)
Repeat(s, n) == IF n = 0 THEN <<>> ELSE s \o Repeat(s, n - 1)

\* the groups a worker has finished, over all its steps
GroupsDone(w) ==
    (sy_step[w] - 1) * NumGroups + (sy_group[w] - 1) + (IF sy_pos[w] = "done" THEN 1 ELSE 0)

IsPrefix(s, t) == Len(s) <= Len(t) /\ \A k \in 1..Len(s) : s[k] = t[k]

\* C4: every worker calls, per step and crop group, the same reductions in the
\* same order - one MAX iff stability mode is on, one SUM of the total mass,
\* one SUM per inner iteration, sinkhorn_iterations of them - whatever its own
\* scores, queue and guard did; and no worker is left blocked in a reduction
\* while the others are blocked in another or have finished.
C4_Lockstep ==
    /\ \A w \in Workers :
          /\ IsPrefix(Repeat(GroupCalls, GroupsDone(w)), sy_calls[w])
          /\ IsPrefix(sy_calls[w], Repeat(GroupCalls, GroupsDone(w) + 1))
          /\ sy_pos[w] = "done" => sy_calls[w] = Repeat(GroupCalls, SyncSteps * NumGroups)
    /\ (\A w \in Workers : sy_wait[w] # "none" \/ sy_pos[w] = "done") =>
          \/ \A w \in Workers : sy_pos[w] = "done" /\ sy_wait[w] = "none"
          \/ \A w \in Workers : sy_wait[w] # "none" /\ sy_wait[w] = sy_wait[1]
                                  /\ Len(sy_calls[w]) = Len(sy_calls[1])

\* all workers through, with stability mode on, two or more inner iterations,
\* and two workers whose own data differed
C4_Witness ==
    /\ \A w \in Workers : sy_pos[w] = "done"
    /\ sy_args.improve_numerical_stability
    /\ sy_args.sinkhorn_iterations >= 2
    /\ sy_local[1] # sy_local[2]

====
